---- MODULE Spec2Model ----
(***************************************************************************)
(* A model of the ArtGuessingGame component                                *)
(* (src/art-guessing-game/src/components/ArtGuessingGame.jsx).             *)
(*                                                                         *)
(* The component's React state (artwork, dotsWide, isLoading, open,        *)
(* searchValue, gameState, searchResults) is the model's state, together   *)
(* with what is in flight on the browser's event loop: the daily-artwork   *)
(* request, the debounce timer, the search requests and the image onload   *)
(* callbacks.  Every action is one event-loop task: a user event's handler *)
(* or an asynchronous continuation, together with the effects React runs   *)
(* for the state it changed.                                               *)
(***************************************************************************)
EXTENDS Integers, Sequences, FiniteSets, Bags, TLC

(***************************************************************************)
(* Bounds of the model.                                                    *)
(***************************************************************************)
\* the most wrong guesses and skips of one run (dotsWide has no bound in the code)
MaxMisses == 2
\* the most search requests in flight at a time
MaxSearches == 2

(***************************************************************************)
(* Program constants.                                                      *)
(***************************************************************************)
InitialDots == 10
DotsIncrement == 10
IdRange == 500000
SearchLimit == 5
DotScale == 20
CharCodeZero == 48

\* JavaScript's null, and a value that is not null
Null == [present |-> FALSE]

Min(a, b) == IF a < b THEN a ELSE b

(***************************************************************************)
(* The calendar: new Date() reads the day the clock shows.                 *)
(***************************************************************************)
Dates == << [y |-> 2024, m |-> 12, d |-> 30],
            [y |-> 2024, m |-> 12, d |-> 31],
            [y |-> 2025, m |-> 1,  d |-> 1],
            [y |-> 2025, m |-> 1,  d |-> 2],
            [y |-> 2025, m |-> 1,  d |-> 3] >>

RECURSIVE Pow10(_)
Pow10(n) == IF n = 0 THEN 1 ELSE 10 * Pow10(n - 1)

\* the char codes of n written in decimal, zero-padded to w digits
PadDigits(n, w) == [i \in 1..w |-> CharCodeZero + ((n \div Pow10(w - i)) % 10)]

\* date-fns format(date, 'yyyyMMdd'), as the string's char codes
Format(date) == PadDigits(date.y, 4) \o PadDigits(date.m, 2) \o PadDigits(date.d, 2)

RECURSIVE Reduce(_, _)
\* Array.from(today).reduce((acc, char) => acc + char.charCodeAt(0), 0)
Reduce(codes, acc) ==
    IF codes = << >> THEN acc ELSE Reduce(Tail(codes), acc + Head(codes))

\* getDailyArtworkId without the "+ 1"
GetDailyArtworkIdNoOffset(date) == Reduce(Format(date), 0) % IdRange

GetDailyArtworkId(date) ==
    LET today == Format(date)
        seed == Reduce(today, 0)
    IN  (seed % IdRange) + 1

(***************************************************************************)
(* The remote collection API: what GET /objects/{id} and GET /search       *)
(* answer.  A field the answer lacks is the empty string (falsy, as        *)
(* undefined is).                                                          *)
(***************************************************************************)
Object(id, image, title, artist, pd) ==
    [objectID |-> id, primaryImage |-> image, title |-> title,
     artistDisplayName |-> artist, isPublicDomain |-> pd,
     objectDate |-> "1900", department |-> "Paintings"]

\* the answer for an id the collection does not hold: {"message": ...}
NotFound ==
    [objectID |-> 0, primaryImage |-> "", title |-> "",
     artistDisplayName |-> "", isPublicDomain |-> FALSE,
     objectDate |-> "", department |-> ""]

RemoteObject(id) ==
    CASE id = 399 -> Object(399, "img399", "Water Lilies", "Monet", TRUE)
      [] id = 400 -> Object(400, "", "Vase", "Unknown", TRUE)
      [] id = 396 -> Object(396, "img396", "Bowl", "Potter", TRUE)
      [] id = 397 -> Object(397, "img397", "Mask", "", TRUE)
      [] id = 398 -> Object(398, "img398", "Poster", "Modern", FALSE)
      [] id = 1   -> Object(1, "img1", "Bowl", "Mint", TRUE)
      [] id = 2   -> Object(2, "img2", "Chair", "Maker", TRUE)
      [] id = 3   -> Object(3, "img3", "Jar", "", TRUE)
      [] id = 4   -> Object(4, "img4", "", "Potter", TRUE)
      [] OTHER    -> NotFound

\* GET /search?q=query: the answer's objectIDs, null when nothing matches
RemoteSearch(query) ==
    CASE query = "monet" -> [present |-> TRUE, value |-> <<399, 400, 398, 396, 1, 2, 3>>]
      [] query = "vase"  -> [present |-> TRUE, value |-> <<1, 2, 3, 4, 397, 396, 399>>]
      [] OTHER           -> Null

Queries == {"", "monet", "vase", "zzz"}

\* JavaScript truthiness of a string
Truthy(s) == s # ""

(***************************************************************************)
(* State.                                                                  *)
(***************************************************************************)
VARIABLES
    artwork,        \* useState(null): Null or the day's artwork
    dotsWide,       \* useState(10)
    isLoading,      \* useState(true)
    open,           \* useState(false)
    searchValue,    \* useState("")
    gameState,      \* useState('playing')
    searchResults,  \* useState([])
    mounted,        \* whether the mount effects have run
    today,          \* the index in Dates of the day the clock shows
    fetchPending,   \* the requests of fetchDailyArtwork awaiting their answer
    fetchFailed,    \* whether a call of fetchDailyArtwork has caught an error
    searchTimer,    \* the queries of the pending debounce timeout (at most one)
    searchPending,  \* the bag of the calls of searchArtworks awaiting an answer
    pendingLoads,   \* the dotsWide values of the onload callbacks not yet run
    canvasWidth,    \* outputCanvas.width, 0 before the first drawing
    misses          \* the number of wrong guesses and skips so far

vars == << artwork, dotsWide, isLoading, open, searchValue, gameState,
           searchResults, mounted, today, fetchPending, fetchFailed,
           searchTimer, searchPending, pendingLoads, canvasWidth, misses >>

gameVars == << artwork, dotsWide, isLoading, gameState, pendingLoads, canvasWidth,
               misses >>
fetchVars == << fetchPending, fetchFailed >>
searchVars == << open, searchValue, searchResults, searchTimer, searchPending >>

Init ==
    /\ artwork = Null
    /\ dotsWide = InitialDots
    /\ isLoading = TRUE
    /\ open = FALSE
    /\ searchValue = ""
    /\ gameState = "playing"
    /\ searchResults = << >>
    /\ mounted = FALSE
    /\ today \in 1..Len(Dates)
    /\ fetchPending = {}
    /\ fetchFailed = FALSE
    /\ searchTimer = {}
    /\ searchPending = EmptyBag
    /\ pendingLoads = {}
    /\ canvasWidth = 0
    /\ misses = 0

(***************************************************************************)
(* processImage and the effect that calls it.                              *)
(***************************************************************************)
\* processImage(imageUrl) in a render whose dotsWide is w: an Image starts
\* loading and its onload callback, which closes over w, is pending.  A
\* callback draws what its w says and nothing else, so two pending callbacks
\* with the same w are not told apart: the second draws what the first drew
ProcessImage(loads, w) == loads \cup {w}

\* useEffect(..., [artwork, dotsWide]) after a render with the values art and w
ImageEffect(loads, art, w) ==
    IF art # Null /\ Truthy(art.image) THEN ProcessImage(loads, w) ELSE loads

(***************************************************************************)
(* fetchDailyArtwork.                                                      *)
(***************************************************************************)
\* the request a call of fetchDailyArtwork sends, and the day it was sent
DailyRequest ==
    LET objectId == GetDailyArtworkId(Dates[today])
    IN  [id |-> objectId, date |-> today]

Eligible(data) ==
    /\ Truthy(data.primaryImage)
    /\ Truthy(data.title)
    /\ Truthy(data.artistDisplayName)
    /\ data.isPublicDomain

ArtworkOf(data) ==
    [present |-> TRUE, id |-> data.objectID, title |-> data.title,
     artist |-> data.artistDisplayName, year |-> data.objectDate,
     image |-> data.primaryImage, department |-> data.department]

\* the mount effects: fetchDailyArtwork() up to its first await, and the
\* debounce effect's first timeout
Mount ==
    /\ ~mounted
    /\ mounted' = TRUE
    /\ isLoading' = TRUE
    /\ fetchPending' = fetchPending \cup {DailyRequest}
    /\ searchTimer' = {searchValue}
    /\ UNCHANGED << artwork, dotsWide, open, searchValue, gameState, searchResults,
                    today, fetchFailed, searchPending, pendingLoads, canvasWidth,
                    misses >>

\* the answer to request r is a suitable artwork
FetchSuitable(r) ==
    LET data == RemoteObject(r.id)
    IN  /\ r \in fetchPending
        /\ Eligible(data)
        /\ artwork' = ArtworkOf(data)
        /\ isLoading' = FALSE
        /\ fetchPending' = fetchPending \ {r}
        /\ pendingLoads' = ImageEffect(pendingLoads, ArtworkOf(data), dotsWide)
        /\ UNCHANGED << dotsWide, gameState, canvasWidth, misses, mounted, today,
                        fetchFailed >>
        /\ UNCHANGED searchVars

\* fetchDailyArtwork giving up on an unsuitable answer instead of calling itself
FetchUnsuitableNoRetry(r) ==
    /\ r \in fetchPending
    /\ ~Eligible(RemoteObject(r.id))
    /\ artwork' = Null
    /\ fetchPending' = fetchPending \ {r}
    /\ isLoading' = FALSE
    /\ UNCHANGED << dotsWide, gameState, pendingLoads, canvasWidth, misses, mounted,
                    today, fetchFailed >>
    /\ UNCHANGED searchVars

\* the answer to request r is not suitable: setArtwork(null), the recursive
\* call up to its await, then the outer call's finally
FetchUnsuitable(r) ==
    LET data == RemoteObject(r.id)
    IN  /\ r \in fetchPending
        /\ ~Eligible(data)
        /\ artwork' = Null
        /\ fetchPending' = (fetchPending \ {r}) \cup {DailyRequest}
        /\ isLoading' = FALSE
        /\ pendingLoads' = ImageEffect(pendingLoads, Null, dotsWide)
        /\ UNCHANGED << dotsWide, gameState, canvasWidth, misses, mounted, today,
                        fetchFailed >>
        /\ UNCHANGED searchVars

\* fetchDailyArtwork calling itself again from its catch block
FetchErrorRetry(r) ==
    /\ r \in fetchPending
    /\ fetchPending' = (fetchPending \ {r}) \cup {DailyRequest}
    /\ fetchFailed' = TRUE
    /\ isLoading' = FALSE
    /\ UNCHANGED << artwork, dotsWide, gameState, pendingLoads, canvasWidth, misses,
                    mounted, today >>
    /\ UNCHANGED searchVars

\* fetch or response.json() rejects for request r: catch, then finally
FetchError(r) ==
    /\ r \in fetchPending
    /\ fetchPending' = fetchPending \ {r}
    /\ fetchFailed' = TRUE
    /\ isLoading' = FALSE
    /\ UNCHANGED << artwork, dotsWide, gameState, pendingLoads, canvasWidth, misses,
                    mounted, today >>
    /\ UNCHANGED searchVars

\* midnight passes.  Only fetchDailyArtwork reads the clock, so the days are
\* followed while one of its requests is pending
NextDay ==
    /\ today < Len(Dates)
    /\ fetchPending # {}
    /\ today' = today + 1
    /\ UNCHANGED << mounted >>
    /\ UNCHANGED gameVars
    /\ UNCHANGED fetchVars
    /\ UNCHANGED searchVars

(***************************************************************************)
(* The image's onload callback.                                            *)
(***************************************************************************)
\* the onload callback of a processImage call made with dotsWide = w runs.
\* The canvases are rendered only when isLoading is false: without them
\* canvas.getContext throws and nothing is drawn
ImageLoaded(w) ==
    /\ w \in pendingLoads
    /\ pendingLoads' = pendingLoads \ {w}
    /\ canvasWidth' = IF isLoading THEN canvasWidth ELSE w * DotScale
    /\ UNCHANGED << artwork, dotsWide, isLoading, gameState, misses, mounted, today >>
    /\ UNCHANGED fetchVars
    /\ UNCHANGED searchVars

(***************************************************************************)
(* The search box: the popover, the debounce effect and searchArtworks.    *)
(***************************************************************************)
\* the search and guess controls are rendered
ControlsShown == mounted /\ ~isLoading /\ gameState = "playing"

\* Popover onOpenChange={setOpen}
ToggleOpen ==
    /\ ControlsShown
    /\ open' = ~open
    /\ UNCHANGED << searchValue, searchResults, searchTimer, searchPending, mounted,
                    today >>
    /\ UNCHANGED gameVars
    /\ UNCHANGED fetchVars

\* useEffect(..., [searchValue]) when searchValue changes from old to new:
\* the cleanup clears the pending timeout and a new one is set
DebounceEffect(timer, old, new) == IF new = old THEN timer ELSE {new}

\* CommandInput onValueChange={setSearchValue}
SetSearchValue(q) ==
    /\ ControlsShown
    /\ open
    /\ q # searchValue
    /\ searchValue' = q
    /\ searchTimer' = DebounceEffect(searchTimer, searchValue, q)
    /\ UNCHANGED << open, searchResults, searchPending, mounted, today >>
    /\ UNCHANGED gameVars
    /\ UNCHANGED fetchVars

\* the request searchArtworks(query) sends to the search endpoint
SearchRequest(query) == [query |-> query, stage |-> "search", ids |-> << >>]

\* the timeout fires: searchArtworks(query) up to its first await
SearchArtworks(query) ==
    /\ query \in searchTimer
    /\ searchTimer' = {}
    /\ IF ~Truthy(query)
       THEN /\ searchResults' = << >>
            /\ UNCHANGED searchPending
       ELSE /\ BagCardinality(searchPending) < MaxSearches
            /\ searchPending' = searchPending (+) SetToBag({SearchRequest(query)})
            /\ UNCHANGED searchResults
    /\ UNCHANGED << open, searchValue, mounted, today >>
    /\ UNCHANGED gameVars
    /\ UNCHANGED fetchVars

\* data.objectIDs || [], with the slice forgotten
LimitedIdsUnsliced(objectIDs) == IF objectIDs = Null THEN << >> ELSE objectIDs.value

\* data.objectIDs?.slice(0, 5) || []
LimitedIds(objectIDs) ==
    IF objectIDs = Null
    THEN << >>
    ELSE SubSeq(objectIDs.value, 1, Min(SearchLimit, Len(objectIDs.value)))

SearchFilter(item) == Truthy(item.primaryImage) /\ item.isPublicDomain

SearchEntry(item) ==
    [id |-> item.objectID, title |-> item.title, artist |-> item.artistDisplayName,
     year |-> item.objectDate]

\* details.filter(...).map(...)
FormattedResults(ids) ==
    LET details == [i \in 1..Len(ids) |-> RemoteObject(ids[i])]
        kept == SelectSeq(details, SearchFilter)
    IN  [i \in 1..Len(kept) |-> SearchEntry(kept[i])]

\* the search endpoint answers request r: the detail requests are sent; with
\* no ids Promise.all([]) resolves at once and the results are set
SearchAnswer(r) ==
    LET limitedIds == LimitedIds(RemoteSearch(r.query))
    IN  /\ r \in BagToSet(searchPending)
        /\ r.stage = "search"
        /\ IF limitedIds = << >>
           THEN /\ searchResults' = FormattedResults(limitedIds)
                /\ searchPending' = searchPending (-) SetToBag({r})
           ELSE /\ searchPending' = (searchPending (-) SetToBag({r})) (+)
                        SetToBag({[r EXCEPT !.stage = "details", !.ids = limitedIds]})
                /\ UNCHANGED searchResults
        /\ UNCHANGED << open, searchValue, searchTimer, mounted, today >>
        /\ UNCHANGED gameVars
        /\ UNCHANGED fetchVars

\* searchArtworks dropping the answer of a query that is no longer the current one
DetailsAnswerIfCurrent(r) ==
    /\ r \in BagToSet(searchPending)
    /\ r.stage = "details"
    /\ searchResults' =
         IF r.query = searchValue THEN FormattedResults(r.ids) ELSE searchResults
    /\ searchPending' = searchPending (-) SetToBag({r})
    /\ UNCHANGED << open, searchValue, searchTimer, mounted, today >>
    /\ UNCHANGED gameVars
    /\ UNCHANGED fetchVars

\* every detail request of r has answered: setSearchResults(formattedResults)
DetailsAnswer(r) ==
    /\ r \in BagToSet(searchPending)
    /\ r.stage = "details"
    /\ searchResults' = FormattedResults(r.ids)
    /\ searchPending' = searchPending (-) SetToBag({r})
    /\ UNCHANGED << open, searchValue, searchTimer, mounted, today >>
    /\ UNCHANGED gameVars
    /\ UNCHANGED fetchVars

\* a fetch or a json() of request r rejects: catch, setSearchResults([])
SearchError(r) ==
    /\ r \in BagToSet(searchPending)
    /\ searchResults' = << >>
    /\ searchPending' = searchPending (-) SetToBag({r})
    /\ UNCHANGED << open, searchValue, searchTimer, mounted, today >>
    /\ UNCHANGED gameVars
    /\ UNCHANGED fetchVars

(***************************************************************************)
(* handleGuess and handleSkip.                                             *)
(***************************************************************************)
Range(seq) == {seq[i] : i \in 1..Len(seq)}

\* the guess compared by title instead of id
IsCorrectByTitle(selectedArtwork, art) == selectedArtwork.title = art.title

\* selectedArtwork.id === artwork.id
IsCorrect(selectedArtwork, art) == selectedArtwork.id = art.id

\* prev => prev * 2
MoreDotsDoubled(prev) == prev * 2

\* prev => prev + 10
MoreDots(prev) == prev + DotsIncrement

\* CommandItem onSelect={() => handleGuess(art)}
HandleGuess(selectedArtwork) ==
    /\ ControlsShown
    /\ open
    /\ selectedArtwork \in Range(searchResults)
    /\ IF artwork = Null
       THEN \* artwork.id throws a TypeError before any state is set
            UNCHANGED << dotsWide, gameState, pendingLoads, misses, open,
                         searchValue, searchResults, searchTimer >>
       ELSE /\ IF IsCorrect(selectedArtwork, artwork)
               THEN /\ gameState' = "won"
                    /\ UNCHANGED << dotsWide, pendingLoads, misses >>
               ELSE /\ misses < MaxMisses
                    /\ dotsWide' = MoreDots(dotsWide)
                    /\ misses' = misses + 1
                    /\ pendingLoads' =
                         ImageEffect(ProcessImage(pendingLoads, dotsWide),
                                     artwork, MoreDots(dotsWide))
                    /\ UNCHANGED gameState
            /\ open' = FALSE
            /\ searchValue' = ""
            /\ searchResults' = << >>
            /\ searchTimer' = DebounceEffect(searchTimer, searchValue, "")
    /\ UNCHANGED << artwork, isLoading, canvasWidth, searchPending, mounted, today >>
    /\ UNCHANGED fetchVars

\* Button onClick={handleSkip}
HandleSkip ==
    /\ ControlsShown
    /\ misses < MaxMisses
    /\ dotsWide' = MoreDots(dotsWide)
    /\ misses' = misses + 1
    /\ pendingLoads' =
         IF artwork = Null
         THEN \* artwork.image throws a TypeError after setDotsWide was queued
              ImageEffect(pendingLoads, artwork, MoreDots(dotsWide))
         ELSE ImageEffect(ProcessImage(pendingLoads, dotsWide),
                          artwork, MoreDots(dotsWide))
    /\ UNCHANGED << artwork, isLoading, gameState, canvasWidth, mounted, today >>
    /\ UNCHANGED fetchVars
    /\ UNCHANGED searchVars

Next ==
    \/ Mount
    \/ \E r \in fetchPending : FetchSuitable(r)
    \/ \E r \in fetchPending : FetchUnsuitable(r)
    \/ \E r \in fetchPending : FetchError(r)
    \/ NextDay
    \/ \E w \in pendingLoads : ImageLoaded(w)
    \/ ToggleOpen
    \/ \E q \in Queries : SetSearchValue(q)
    \/ \E q \in searchTimer : SearchArtworks(q)
    \/ \E r \in BagToSet(searchPending) : SearchAnswer(r)
    \/ \E r \in BagToSet(searchPending) : DetailsAnswer(r)
    \/ \E r \in BagToSet(searchPending) : SearchError(r)
    \/ \E art \in Range(searchResults) : HandleGuess(art)
    \/ HandleSkip

Spec == Init /\ [][Next]_vars

(***************************************************************************)
(* Properties.                                                             *)
(***************************************************************************)
\* a guess of an entry whose id is the artwork's
CorrectGuess ==
    \E art \in Range(searchResults) :
        HandleGuess(art) /\ artwork # Null /\ art.id = artwork.id

\* a guess of an entry whose id is not the artwork's
WrongGuess ==
    \E art \in Range(searchResults) :
        HandleGuess(art) /\ artwork # Null /\ art.id # artwork.id

\* C1: every wrong guess and every skip adds exactly 10 to dotsWide, nothing
\* ever lowers it, and in every state dotsWide is the positive integer
\* 10 + 10 * (the number of wrong guesses and skips so far).
DotsWideCountsMisses ==
    /\ [](dotsWide = 10 + 10 * misses /\ dotsWide > 0)
    /\ [][(WrongGuess \/ HandleSkip) => dotsWide' = dotsWide + 10]_vars
    /\ [][dotsWide' >= dotsWide]_vars

\* C1 witness: a skip or wrong guess has raised dotsWide twice.
DotsWideRaisedTwice == misses = 2 /\ dotsWide = 30

\* C2: gameState is 'playing' or 'won'; it changes only from 'playing' to
\* 'won' and only by a guess of the artwork's id, which always changes it and
\* leaves dotsWide alone; a guess of another id and a skip leave it 'playing'.
GameStateWonByCorrectGuess ==
    /\ [](gameState \in {"playing", "won"})
    /\ [][gameState' # gameState =>
            gameState = "playing" /\ gameState' = "won" /\ CorrectGuess]_vars
    /\ [][CorrectGuess => gameState' = "won" /\ dotsWide' = dotsWide]_vars
    /\ [][(WrongGuess \/ HandleSkip) => gameState' = "playing"]_vars

\* C2 witness: the game was won after a wrong guess or skip.
WonAfterMiss == gameState = "won" /\ misses > 0

\* the yyyyMMdd string of a date read off the number y * 10000 + m * 100 + d:
\* the sum of the char codes of its eight decimal digits
DateCodeSum(date) ==
    LET number == date.y * 10000 + date.m * 100 + date.d
        Digit(i) == (number \div Pow10(i)) % 10
        Code(i) == 48 + Digit(i)
    IN  Code(0) + Code(1) + Code(2) + Code(3) + Code(4) + Code(5) + Code(6) + Code(7)

\* C3: the identifier fetchDailyArtwork asks for is ((the sum of the char
\* codes of the day's yyyyMMdd string) mod 500000) + 1, a number of 1..500000,
\* and a call made on the day of the request it follows asks for the same
\* identifier.
DailyIdFromDate ==
    /\ [](\A r \in fetchPending :
            /\ r.id = (DateCodeSum(Dates[r.date]) % 500000) + 1
            /\ r.id \in 1..500000)
    /\ [][\A r \in fetchPending : \A r2 \in fetchPending' :
            r2.date = r.date => r2.id = r.id]_vars

\* C3 witness: a request was sent on a day whose month and day are padded
\* with zeros.
RequestOnPaddedDate ==
    \E r \in fetchPending : Dates[r.date].m < 10 /\ Dates[r.date].d < 10

\* the search requests that stopped pending in a step
Settled(r) == CopiesIn(r, searchPending') < CopiesIn(r, searchPending)

\* C4: nothing cancels or guards a search answer.  A pending search request
\* stops pending only by its own answer or error, whatever newer request was
\* sent, whatever searchValue is now and whether or not handleGuess cleared
\* the search, and the answer of its detail requests always overwrites
\* searchResults.
SearchAnswersUnguarded ==
    /\ [][\A r \in BagToSet(searchPending) :
            Settled(r) => SearchAnswer(r) \/ DetailsAnswer(r) \/ SearchError(r)]_vars
    /\ [][\A r \in BagToSet(searchPending) :
            (r.stage = "details" /\ Settled(r) /\ ~SearchError(r))
                => searchResults' = FormattedResults(r.ids)]_vars

\* the results the remote API gives for a query
ResultsFor(query) == FormattedResults(LimitedIds(RemoteSearch(query)))

\* C4 witness: the timeout of the current searchValue has fired, so the
\* latest request sent was for searchValue; every answer has arrived; and
\* searchResults holds the results of another query.
StaleResultsHeld ==
    /\ Truthy(searchValue)
    /\ searchTimer = {}
    /\ searchPending = EmptyBag
    /\ searchResults # << >>
    /\ searchResults # ResultsFor(searchValue)
    /\ \E q \in Queries \ {searchValue} : searchResults = ResultsFor(q)

\* C5: an unsuitable answer sets artwork to null and sends the next request
\* in the same step, with no count of the retries so far; as long as no
\* error was caught, once mounted there is a request pending or an artwork.
UnsuitableRefetchesForever ==
    /\ []((mounted /\ ~fetchFailed) => (fetchPending # {} \/ artwork # Null))
    /\ [](\A r \in fetchPending :
            ~Eligible(RemoteObject(r.id)) => ENABLED FetchUnsuitable(r))
    /\ [][\A r \in fetchPending :
            FetchUnsuitable(r) =>
                /\ artwork' = Null
                /\ fetchPending' # {}
                /\ \A r2 \in fetchPending' : r2.date = today]_vars

\* C5 witness: an unsuitable answer was handled and the retry is in flight.
RetryInFlight ==
    /\ ~isLoading
    /\ ~fetchFailed
    /\ artwork = Null
    /\ \E r \in fetchPending : ~Eligible(RemoteObject(r.id))

\* C6: an error of the daily fetch is caught: no request is sent, artwork,
\* gameState and dotsWide stay and isLoading ends false, so that after it
\* nothing is pending; an error of a search sets searchResults to [].
ErrorsCaught ==
    /\ [][\A r \in fetchPending :
            FetchError(r) =>
                /\ artwork' = artwork
                /\ gameState' = gameState
                /\ dotsWide' = dotsWide
                /\ isLoading' = FALSE
                /\ fetchPending' = fetchPending \ {r}]_vars
    /\ [](fetchFailed => fetchPending = {} /\ ~isLoading)
    /\ [][\A r \in BagToSet(searchPending) :
            SearchError(r) => searchResults' = << >>]_vars

\* C6 witness: the daily fetch has failed while search results were shown,
\* with a search request still pending that may fail too.
FetchFailedState ==
    /\ fetchFailed
    /\ artwork = Null
    /\ searchResults # << >>
    /\ searchPending # EmptyBag

\* C7: details are asked for at most 5 ids, and searchResults holds at most
\* 5 entries, each of a record with a primary image and in the public domain.
SearchResultsBounded ==
    /\ Len(searchResults) <= 5
    /\ \A r \in BagToSet(searchPending) : Len(r.ids) <= 5
    /\ \A e \in Range(searchResults) :
            /\ Truthy(RemoteObject(e.id).primaryImage)
            /\ RemoteObject(e.id).isPublicDomain

\* C7 witness: a search that lists more than 5 ids filled searchResults
\* with 5 entries.
FiveResults ==
    /\ Len(searchResults) = 5
    /\ \E q \in Queries :
            /\ RemoteSearch(q) # Null
            /\ Len(RemoteSearch(q).value) > 5
            /\ searchResults = ResultsFor(q)

\* C8: the retry after an unsuitable answer asks for another identifier
\* than the one found unsuitable.
RetryAsksNextId ==
    [][\A r \in fetchPending :
        FetchUnsuitable(r) => \A r2 \in fetchPending' : r2.id # r.id]_vars

\* C9: whenever the guess and skip controls are available, artwork is not
\* null.
ControlsImplyArtwork ==
    (~isLoading /\ gameState = "playing") => artwork # Null

\* C10: after a skip or wrong guess of a loaded artwork, once no onload
\* callback is pending, the output canvas is dotsWide dots wide.
MosaicShowsDotsWide ==
    (artwork # Null /\ misses > 0 /\ pendingLoads = {})
        => canvasWidth = dotsWide * DotScale

====
